---- MODULE Spec2Model ----
(***************************************************************************)
(* A model of mcf's front end: the tokenizer of src/lex.rs and the         *)
(* recursive-descent parser and main loop of src/main.rs.                  *)
(*                                                                         *)
(* A character is a string of length 1, a source text a sequence of        *)
(* characters; the model's alphabet is ASCII, so a character's index in    *)
(* the sequence minus one is its byte offset (what char_indices yields).   *)
(***************************************************************************)
EXTENDS Integers, Sequences, FiniteSets, TLC

VARIABLES
    source,     \* main.rs: contents, the source text
    pc,         \* where main is: "tokenize", "parse", "done", or how it ended
    it,         \* Tokenizer.it: number of characters consumed so far
    c,          \* tokenize: the Consumed of the outer loop's latest iteration
    tokens,     \* tokenize's `tokens` vector
    tokErr,     \* the TokenizeError returned by tokenize (NoTokErr while none)
    pit,        \* Parser.it: number of tokens consumed so far
    last,       \* the outcome of the latest parse_expr call of main's loop
    forms,      \* the expressions the source text was written from (<<>> if none)
    calls,      \* the number of parse_expr calls main's loop has made
    diag        \* what report_error has resolved and printed (NoDiag while nothing)

vars == <<source, pc, it, c, tokens, tokErr, pit, last, forms, calls, diag>>

----------------------------------------------------------------------------
(* Bounds *)

\* longest source text over the whole alphabet
MaxSrcLen == 3

\* longest source text over the core alphabet
MaxCoreLen == 5

\* The characters sources are drawn from: every character lex.rs treats
\* specially, two decimal digits, a hexadecimal-only digit and letters.
Alphabet ==
    {"(", ")", "[", "]", "'", "\"", "\\", "#", " ", "\n",
     "-", "0", "1", "x", "F", "t", "n"}

\* The characters of the longer sources: string and integer literals
CoreAlphabet == {"\"", "\\", "n", "0", "1", "x", "F", " "}

\* longest token sequence over every kind of token
MaxTokens == 3

\* longest token sequence over the core kinds of token
MaxCoreTokens == 6

\* most tokens in the text of a sequence of generated expressions
MaxFormTokens == 8

AllSources ==
    (UNION {[1..n -> Alphabet] : n \in 0..MaxSrcLen})
    \cup (UNION {[1..n -> CoreAlphabet] : n \in 0..MaxCoreLen})

----------------------------------------------------------------------------
(* Characters (std's char methods as lex.rs uses them) *)

\* Option<char>::None
NoChar == ""

\* char::is_whitespace, on ASCII
is_whitespace(ch) == ch \in {" ", "\n", "\t", "\r"}

\* char::to_digit's table: the value of a digit character in base <= 16
DigitValue ==
    [ch \in {"0","1","2","3","4","5","6","7","8","9",
             "a","b","c","d","e","f","A","B","C","D","E","F"} |->
        CASE ch = "0" -> 0  [] ch = "1" -> 1  [] ch = "2" -> 2  [] ch = "3" -> 3
          [] ch = "4" -> 4  [] ch = "5" -> 5  [] ch = "6" -> 6  [] ch = "7" -> 7
          [] ch = "8" -> 8  [] ch = "9" -> 9
          [] ch \in {"a", "A"} -> 10  [] ch \in {"b", "B"} -> 11
          [] ch \in {"c", "C"} -> 12  [] ch \in {"d", "D"} -> 13
          [] ch \in {"e", "E"} -> 14  [] ch \in {"f", "F"} -> 15]

\* char::is_digit(base)
is_digit(ch, base) == ch \in DOMAIN DigitValue /\ DigitValue[ch] < base

\* char::to_digit(base).unwrap()
to_digit(ch, base) == DigitValue[ch]

\* the pattern '0'..='9'
IsDecimalDigit(ch) == ch \in {"0","1","2","3","4","5","6","7","8","9"}

----------------------------------------------------------------------------
(* Tokens and errors *)

\* Token{kind, pos}; a Name's or String's text is in str, an Integer's value in int
Token(kind, str, int, pos) == [kind |-> kind, str |-> str, int |-> int, pos |-> pos]

new_simple(ch, pos) ==
    Token(CASE ch = "(" -> "LParen"
            [] ch = ")" -> "RParen"
            [] ch = "[" -> "LBracket"
            [] ch = "]" -> "RBracket"
            [] ch = "'" -> "Quote",
          <<>>, 0, pos)

new_name(name, pos) == Token("Name", name, 0, pos)

new_integer(value, pos) == Token("Integer", <<>>, value, pos)

new_string(value, pos) == Token("String", value, 0, pos)

\* TokenizeError{message, pos}; detail is the character formatted into the message
TokenizeError(message, detail, pos) ==
    [message |-> message, detail |-> detail, pos |-> pos]

NoTokErr == TokenizeError("", NoChar, 0)

UnknownEscapeSequence   == "Unknown escape sequence"
UnexpectedEndOfFile     == "Unexpected end of file"
UnterminatedString      == "Unterminated string"
InvalidIntegerCharacter == "Unexpected character in integer literal"

----------------------------------------------------------------------------
(* Tokenizer *)

\* self.it.peek(): the character after i consumed ones
peek(src, i) == IF i < Len(src) THEN src[i + 1] ELSE NoChar

\* consume_next with offsets counted from 1
consume_next_from_one(src, i) ==
    [this |-> src[i + 1], next |-> peek(src, i + 1), pos |-> i + 1]

\* consume_next, when it returns Some: the Consumed{this, next, pos}
\* of the character after i consumed ones (the iterator then stands at i + 1)
consume_next(src, i) ==
    [this |-> src[i + 1], next |-> peek(src, i + 1), pos |-> i]

\* no iteration of the outer loop yet
NoConsumed == [this |-> NoChar, next |-> NoChar, pos |-> 0]

\* What the body of one match arm leaves: the iterator, the token it pushed
\* (push says whether it pushed one) and the error it returned (NoTokErr if none)
ArmOk(i, tok)   == [it |-> i, push |-> TRUE, tok |-> tok, err |-> NoTokErr]
ArmSkip(i)      == [it |-> i, push |-> FALSE, tok |-> Token("", <<>>, 0, 0), err |-> NoTokErr]
ArmErr(i, err)  == [it |-> i, push |-> FALSE, tok |-> Token("", <<>>, 0, 0), err |-> err]

\* string_loop with one thing changed. "last" reports the unterminated
\* string at the last character consumed, "end" at the end of the input;
\* "unterminated" reports a final backslash as an unterminated string too;
\* "at_character" reports an unknown escape at the character after the
\* backslash; "two_escapes" knows no escape for a newline; "backslash"
\* takes two backslashes for an escaped backslash
RECURSIVE string_loop_variant(_, _, _, _, _)
string_loop_variant(src, i, content, q, variant) ==
    IF i >= Len(src)
    THEN ArmErr(i, TokenizeError(UnterminatedString, NoChar,
                                 CASE variant = "last" -> i - 1
                                   [] variant = "end"  -> i
                                   [] OTHER            -> q.pos))
    ELSE LET s == consume_next(src, i) IN
         IF s.this = "\\"
         THEN IF s.next # NoChar
              THEN CASE s.next = "\"" -> string_loop_variant(src, i + 2, Append(content, "\""), q, variant)
                     [] s.next = "t"  -> string_loop_variant(src, i + 2, Append(content, "\t"), q, variant)
                     [] s.next = "n" /\ variant # "two_escapes" ->
                           string_loop_variant(src, i + 2, Append(content, "\n"), q, variant)
                     [] s.next = "\\" /\ variant = "backslash" ->
                           string_loop_variant(src, i + 2, Append(content, "\\"), q, variant)
                     [] OTHER -> ArmErr(i + 2, TokenizeError(UnknownEscapeSequence, s.next,
                                          IF variant = "at_character" THEN s.pos + 1 ELSE s.pos))
              ELSE ArmErr(i + 1, TokenizeError(IF variant = "unterminated"
                                               THEN UnterminatedString
                                               ELSE UnexpectedEndOfFile, NoChar, s.pos))
         ELSE IF s.this = "\""
              THEN ArmOk(i + 1, new_string(content, q.pos))
              ELSE string_loop_variant(src, i + 1, Append(content, s.this), q, variant)

string_loop_last(src, i, content, q) == string_loop_variant(src, i, content, q, "last")

string_loop_unterminated(src, i, content, q) ==
    string_loop_variant(src, i, content, q, "unterminated")

string_loop_end(src, i, content, q) == string_loop_variant(src, i, content, q, "end")

string_loop_at_character(src, i, content, q) ==
    string_loop_variant(src, i, content, q, "at_character")

string_loop_two_escapes(src, i, content, q) ==
    string_loop_variant(src, i, content, q, "two_escapes")

string_loop_backslash(src, i, content, q) ==
    string_loop_variant(src, i, content, q, "backslash")

\* the string arm's loop; q is the outer loop's c, the Consumed of the opening quote
RECURSIVE string_loop(_, _, _, _)
string_loop(src, i, content, q) ==
    IF i >= Len(src)
    THEN ArmErr(i, TokenizeError(UnterminatedString, NoChar, q.pos))
    ELSE LET s == consume_next(src, i) IN
         IF s.this = "\\"
         THEN IF s.next # NoChar
              THEN CASE s.next = "\"" -> string_loop(src, i + 2, Append(content, "\""), q)
                     [] s.next = "t"  -> string_loop(src, i + 2, Append(content, "\t"), q)
                     [] s.next = "n"  -> string_loop(src, i + 2, Append(content, "\n"), q)
                     [] OTHER -> ArmErr(i + 2, TokenizeError(UnknownEscapeSequence, s.next, s.pos))
              ELSE ArmErr(i + 1, TokenizeError(UnexpectedEndOfFile, NoChar, s.pos))
         ELSE IF s.this = "\""
              THEN ArmOk(i + 1, new_string(content, q.pos))
              ELSE string_loop(src, i + 1, Append(content, s.this), q)

\* integer_loop stopping at an opening parenthesis as well
RECURSIVE integer_loop_lparen(_, _, _, _, _, _)
integer_loop_lparen(src, i, value, base, sign, q) ==
    LET ch == peek(src, i) IN
    IF ch = NoChar \/ is_whitespace(ch) \/ ch \in {"(", ")", "]"}
    THEN ArmOk(i, new_integer(value * sign, q.pos))
    ELSE LET s == consume_next(src, i) IN
         IF ~is_digit(s.this, base)
         THEN ArmErr(i + 1, TokenizeError(InvalidIntegerCharacter, NoChar, s.pos))
         ELSE integer_loop_lparen(src, i + 1, value * base + to_digit(s.this, base),
                                  base, sign, q)

\* the integer arm's digit loop
RECURSIVE integer_loop(_, _, _, _, _, _)
integer_loop(src, i, value, base, sign, q) ==
    LET ch == peek(src, i) IN
    IF ch = NoChar \/ is_whitespace(ch) \/ ch \in {")", "]"}
    THEN ArmOk(i, new_integer(value * sign, q.pos))
    ELSE LET s == consume_next(src, i) IN
         IF ~is_digit(s.this, base)
         THEN ArmErr(i + 1, TokenizeError(InvalidIntegerCharacter, NoChar, s.pos))
         ELSE integer_loop(src, i + 1, value * base + to_digit(s.this, base), base, sign, q)

\* integer_arm taking any literal that starts with 0 and has a second
\* character for a base-16 one
integer_arm_any_prefix(src, i, q) ==
    LET sign  == IF q.this = "-" THEN -1 ELSE 1
        value == IF q.this = "-" THEN 0 ELSE to_digit(q.this, 10)
        hex   == q.this = "0" /\ q.next # NoChar
        base  == IF hex THEN 16 ELSE 10
    IN  integer_loop(src, IF hex THEN i + 1 ELSE i, value, base, sign, q)

\* the integer arm; q is the outer loop's c, i the iterator after it was consumed
integer_arm(src, i, q) ==
    LET sign  == IF q.this = "-" THEN -1 ELSE 1
        value == IF q.this = "-" THEN 0 ELSE to_digit(q.this, 10)
        hex   == q.this = "0" /\ q.next = "x"
        base  == IF hex THEN 16 ELSE 10
    IN  integer_loop(src, IF hex THEN i + 1 ELSE i, value, base, sign, q)

\* comment_loop ending the comment at a double quote as well
RECURSIVE comment_loop_to_quote(_, _)
comment_loop_to_quote(src, i) ==
    IF i >= Len(src) THEN ArmSkip(i)
    ELSE IF consume_next(src, i).this = "\n" THEN ArmSkip(i + 1)
    ELSE IF peek(src, i + 1) = "\"" THEN ArmSkip(i + 1)
    ELSE comment_loop_to_quote(src, i + 1)

\* the comment arm's loop
RECURSIVE comment_loop(_, _)
comment_loop(src, i) ==
    IF i >= Len(src) THEN ArmSkip(i)
    ELSE IF consume_next(src, i).this = "\n" THEN ArmSkip(i + 1)
    ELSE comment_loop(src, i + 1)

\* name_loop stopping at brackets and quote marks as well
RECURSIVE name_loop_punctuation(_, _, _, _)
name_loop_punctuation(src, i, name, q) ==
    LET ch == peek(src, i) IN
    IF ch = NoChar \/ is_whitespace(ch) \/ ch \in {"(", ")", "\"", "[", "]", "'"}
    THEN ArmOk(i, new_name(name, q.pos))
    ELSE name_loop_punctuation(src, i + 1, Append(name, consume_next(src, i).this), q)

\* the name arm's loop
RECURSIVE name_loop(_, _, _, _)
name_loop(src, i, name, q) ==
    LET ch == peek(src, i) IN
    IF ch = NoChar \/ is_whitespace(ch) \/ ch \in {"(", ")", "\""}
    THEN ArmOk(i, new_name(name, q.pos))
    ELSE name_loop(src, i + 1, Append(name, consume_next(src, i).this), q)

\* which arm of the match on (c.this, c.next) is taken, in the match's order; q is c
IsSimple(q)  == q.this \in {"(", ")", "[", "]", "'"}
IsString(q)  == ~IsSimple(q) /\ q.this = "\""
IsInteger(q) == /\ ~IsSimple(q) /\ ~(q.this = "\"")
                /\ \/ IsDecimalDigit(q.this)
                   \/ q.this = "-" /\ IsDecimalDigit(q.next)
IsComment(q) == ~IsSimple(q) /\ ~(q.this = "\"") /\ ~IsInteger(q) /\ q.this = "#"
IsName(q)    == /\ ~IsSimple(q) /\ ~(q.this = "\"") /\ ~IsInteger(q) /\ ~(q.this = "#")
                /\ ~is_whitespace(q.this)
IsOther(q)   == ~IsSimple(q) /\ ~IsString(q) /\ ~IsInteger(q) /\ ~IsComment(q) /\ ~IsName(q)

\* one iteration of tokenize's outer loop, the iterator standing after i characters
arm(src, i) ==
    LET q == consume_next(src, i) IN
    CASE IsSimple(q)  -> ArmOk(i + 1, new_simple(q.this, q.pos))
      [] IsString(q)  -> string_loop(src, i + 1, <<>>, q)
      [] IsInteger(q) -> integer_arm(src, i + 1, q)
      [] IsComment(q) -> comment_loop(src, i + 1)
      [] IsName(q)    -> name_loop(src, i + 1, <<q.this>>, q)
      [] OTHER        -> ArmSkip(i + 1)

\* Result<Vec<Token>, TokenizeError>
TokOk(toks)  == [ok |-> TRUE, tokens |-> toks, err |-> NoTokErr]
TokErr(err)  == [ok |-> FALSE, tokens |-> <<>>, err |-> err]

\* tokenize, from the iterator standing after i characters with toks pushed
RECURSIVE tokenize_from(_, _, _)
tokenize_from(src, i, toks) ==
    IF i >= Len(src) THEN TokOk(toks)
    ELSE LET r == arm(src, i) IN
         IF r.err # NoTokErr THEN TokErr(r.err)
         ELSE tokenize_from(src, r.it, IF r.push THEN Append(toks, r.tok) ELSE toks)

tokenize(src) == tokenize_from(src, 0, <<>>)

----------------------------------------------------------------------------
(* Expressions and parse outcomes *)

\* enum Expr, one record shape for all variants: str is the name (VariableRef,
\* FnCall, DefineFn, Let) or the value (StringLiteral), int the value of an
\* IntegerLiteral, type a Let's type name, kids the sub-expressions
\* (FnCall/Args/Do: the list; DefineFn: <<args, body>>)
Expr(node, str, type, int, kids) ==
    [node |-> node, str |-> str, type |-> type, int |-> int, kids |-> kids]

NoExpr == Expr("", <<>>, <<>>, 0, <<>>)

VariableRef(var)          == Expr("VariableRef", var, <<>>, 0, <<>>)
IntegerLiteral(val)       == Expr("IntegerLiteral", <<>>, <<>>, val, <<>>)
StringLiteral(val)        == Expr("StringLiteral", val, <<>>, 0, <<>>)
FnCall(name, args)        == Expr("FnCall", name, <<>>, 0, args)
Args(args)                == Expr("Args", <<>>, <<>>, 0, args)
DefineFn(name, args, body) == Expr("DefineFn", name, <<>>, 0, <<args, body>>)
Do(exprs)                 == Expr("Do", <<>>, <<>>, 0, exprs)
Let(name, type)           == Expr("Let", name, type, 0, <<>>)

\* impl Display for Token
readable_name(tok) ==
    CASE tok.kind = "LParen"   -> "opening parenthesis"
      [] tok.kind = "RParen"   -> "closing parenthesis"
      [] tok.kind = "LBracket" -> "opening bracket"
      [] tok.kind = "RBracket" -> "closing bracket"
      [] tok.kind = "Quote"    -> "quote"
      [] tok.kind = "Name"     -> "name"
      [] tok.kind = "Integer"  -> "integer"
      [] tok.kind = "String"   -> "string"

\* the messages of the ParseErrors
EoiFnName      == "Unexpected end of input, was a name for this function"
EoiVarName     == "Unexpected end of input, was a name for this variable"
EoiTypeName    == "Unexpected end of input, was a type name for this variable"
EoiRParen      == "Unexpected end of input, was expecting a closing parenthesis to close this expression"
EofName        == "Unexpected end of file, was expecting a name"
ExpectedName   == "Unexpected token, was expecting a name"
ExpectedType   == "Unexpected token, was expecting a type name"
ExpectedRParen == "Unexpected token, was expecting a closing parenthesis"
Unexpeced      == "Unexpeced"

\* What a parse function leaves: Result<Option<Expr>, ParseError> or a panic
\* (tag "Some", "None", "Err", "Panic"), and the cursor (tokens consumed).
\* A ParseError's token is the index in the token sequence of the token it
\* borrows; detail is what is formatted into its message.
Outcome(tag, expr, message, detail, token, i) ==
    [tag |-> tag, expr |-> expr, message |-> message, detail |-> detail,
     token |-> token, it |-> i]

PSome(expr, i)  == Outcome("Some", expr, "", "", 0, i)
PNone(i)        == Outcome("None", NoExpr, "", "", 0, i)
PErr(message, detail, token, i) == Outcome("Err", NoExpr, message, detail, token, i)
\* Option::unwrap on None
PPanic(i)       == Outcome("Panic", NoExpr, "", "", 0, i)

NoOutcome == Outcome("", NoExpr, "", "", 0, 0)

\* the reserved names, as match name.as_str() spells them
KwFn   == <<"f", "n">>
KwLet  == <<"l", "e", "t">>
KwDo   == <<"d", "o">>
KwArgs == <<"a", "r", "g", "s">>

----------------------------------------------------------------------------
(* Parser: the cursor i is the number of tokens self.it has yielded *)

RECURSIVE parse_expr(_, _)

\* self.parse_expr()?.unwrap(): r as the caller sees it
\* (an Err returns early, a None panics)
unwrap(r) == IF r.tag = "None" THEN PPanic(r.it) ELSE r

\* parse_fncall's loop going on when no token is left
RECURSIVE parse_fncall_loop_no_lookahead(_, _, _, _)
parse_fncall_loop_no_lookahead(toks, i, name, args) ==
    IF i < Len(toks) /\ toks[i + 1].kind = "RParen"
    THEN PSome(FnCall(name, args), i)
    ELSE LET r == unwrap(parse_expr(toks, i)) IN
         IF r.tag # "Some" THEN r
         ELSE parse_fncall_loop_no_lookahead(toks, r.it, name, Append(args, r.expr))

\* parse_fncall's loop, with args pushed so far
RECURSIVE parse_fncall_loop(_, _, _, _)
parse_fncall_loop(toks, i, name, args) ==
    IF i >= Len(toks) \/ toks[i + 1].kind = "RParen"
    THEN PSome(FnCall(name, args), i)
    ELSE LET r == unwrap(parse_expr(toks, i)) IN
         IF r.tag # "Some" THEN r
         ELSE parse_fncall_loop(toks, r.it, name, Append(args, r.expr))

parse_fncall(toks, i, name) == parse_fncall_loop(toks, i, name, <<>>)

\* parse_do's loop
RECURSIVE parse_do_loop(_, _, _)
parse_do_loop(toks, i, exprs) ==
    IF i >= Len(toks) \/ toks[i + 1].kind = "RParen"
    THEN PSome(Do(exprs), i)
    ELSE LET r == unwrap(parse_expr(toks, i)) IN
         IF r.tag # "Some" THEN r
         ELSE parse_do_loop(toks, r.it, Append(exprs, r.expr))

parse_do(toks, i) == parse_do_loop(toks, i, <<>>)

\* parse_args's loop
RECURSIVE parse_args_loop(_, _, _)
parse_args_loop(toks, i, args) ==
    IF i >= Len(toks) \/ toks[i + 1].kind = "RParen"
    THEN PSome(Args(args), i)
    ELSE LET r == unwrap(parse_expr(toks, i)) IN
         IF r.tag # "Some" THEN r
         ELSE parse_args_loop(toks, r.it, Append(args, r.expr))

parse_args(toks, i) == parse_args_loop(toks, i, <<>>)

\* parse_definefn with the parameters and the body exchanged
parse_definefn_swapped(toks, i, fn_token) ==
    IF i >= Len(toks) THEN PErr(EoiFnName, "", fn_token, i)
    ELSE IF toks[i + 1].kind # "Name" THEN PErr(ExpectedName, "", i + 1, i + 1)
    ELSE LET name == toks[i + 1].str
             args == unwrap(parse_expr(toks, i + 1))
         IN  IF args.tag # "Some" THEN args
             ELSE LET body == unwrap(parse_expr(toks, args.it)) IN
                  IF body.tag # "Some" THEN body
                  ELSE PSome(DefineFn(name, body.expr, args.expr), body.it)

\* fn_token is the index of the `fn` token
parse_definefn(toks, i, fn_token) ==
    IF i >= Len(toks) THEN PErr(EoiFnName, "", fn_token, i)
    ELSE IF toks[i + 1].kind # "Name" THEN PErr(ExpectedName, "", i + 1, i + 1)
    ELSE LET name == toks[i + 1].str
             args == unwrap(parse_expr(toks, i + 1))
         IN  IF args.tag # "Some" THEN args
             ELSE LET body == unwrap(parse_expr(toks, args.it)) IN
                  IF body.tag # "Some" THEN body
                  ELSE PSome(DefineFn(name, args.expr, body.expr), body.it)

\* parse_let with the end of input after the variable's name reported at that name
parse_let_at_name(toks, i, let_token) ==
    IF i >= Len(toks) THEN PErr(EoiVarName, "", let_token, i)
    ELSE IF toks[i + 1].kind # "Name" THEN PErr(ExpectedName, "", i + 1, i + 1)
    ELSE IF i + 1 >= Len(toks) THEN PErr(EoiTypeName, "", i + 1, i + 1)
    ELSE IF toks[i + 2].kind # "Name" THEN PErr(ExpectedType, "", i + 2, i + 2)
    ELSE PSome(Let(toks[i + 1].str, toks[i + 2].str), i + 2)

\* let_token is the index of the `let` token
parse_let(toks, i, let_token) ==
    IF i >= Len(toks) THEN PErr(EoiVarName, "", let_token, i)
    ELSE IF toks[i + 1].kind # "Name" THEN PErr(ExpectedName, "", i + 1, i + 1)
    ELSE IF i + 1 >= Len(toks) THEN PErr(EoiTypeName, "", let_token, i + 1)
    ELSE IF toks[i + 2].kind # "Name" THEN PErr(ExpectedType, "", i + 2, i + 2)
    ELSE PSome(Let(toks[i + 1].str, toks[i + 2].str), i + 2)

\* the sub-rule the name after an opening parenthesis selects;
\* next is the index of that name token, i the cursor after it
parse_form(toks, i, next) ==
    LET name == toks[next].str IN
    CASE name = KwFn   -> parse_definefn(toks, i, next)
      [] name = KwLet  -> parse_let(toks, i, next)
      [] name = KwDo   -> parse_do(toks, i)
      [] name = KwArgs -> parse_args(toks, i)
      [] OTHER         -> parse_fncall(toks, i, name)

\* parse_rparen with the end of input reported at the last token
parse_rparen_at_last(toks, result, token) ==
    IF result.it >= Len(toks) THEN PErr(EoiRParen, "", result.it, result.it)
    ELSE IF toks[result.it + 1].kind = "RParen"
         THEN [result EXCEPT !.it = result.it + 1]
         ELSE PErr(ExpectedRParen, "", result.it + 1, result.it + 1)

\* parse_rparen taking the end of input for a closing parenthesis
parse_rparen_implicit(toks, result, token) ==
    IF result.it >= Len(toks) THEN result
    ELSE IF toks[result.it + 1].kind = "RParen"
         THEN [result EXCEPT !.it = result.it + 1]
         ELSE PErr(ExpectedRParen, "", result.it + 1, result.it + 1)

\* after the sub-rule: the closing parenthesis; token is the index of the
\* opening parenthesis
parse_rparen(toks, result, token) ==
    IF result.it >= Len(toks) THEN PErr(EoiRParen, "", token, result.it)
    ELSE IF toks[result.it + 1].kind = "RParen"
         THEN [result EXCEPT !.it = result.it + 1]
         ELSE PErr(ExpectedRParen, "", result.it + 1, result.it + 1)

\* parse_expr with fn, let, do and args reserved wherever a name stands
parse_expr_reserved(toks, i) ==
    IF i >= Len(toks) THEN PNone(i)
    ELSE LET token == toks[i + 1] IN
         CASE token.kind = "LParen" ->
                IF i + 1 >= Len(toks) THEN PErr(EofName, "", i + 1, i + 1)
                ELSE IF toks[i + 2].kind # "Name"
                     THEN PErr(ExpectedName, "", i + 2, i + 2)
                     ELSE LET result == parse_form(toks, i + 2, i + 2) IN
                          IF result.tag # "Some" THEN result
                          ELSE parse_rparen(toks, result, i + 1)
           [] token.kind = "Name" /\ token.str \notin {KwFn, KwLet, KwDo, KwArgs} ->
                PSome(VariableRef(token.str), i + 1)
           [] token.kind = "Integer" -> PSome(IntegerLiteral(token.int), i + 1)
           [] token.kind = "String"  -> PSome(StringLiteral(token.str), i + 1)
           [] OTHER -> PErr(Unexpeced, readable_name(token), i + 1, i + 1)

parse_expr(toks, i) ==
    IF i >= Len(toks) THEN PNone(i)
    ELSE LET token == toks[i + 1] IN
         CASE token.kind = "LParen" ->
                IF i + 1 >= Len(toks) THEN PErr(EofName, "", i + 1, i + 1)
                ELSE IF toks[i + 2].kind # "Name"
                     THEN PErr(ExpectedName, "", i + 2, i + 2)
                     ELSE LET result == parse_form(toks, i + 2, i + 2) IN
                          IF result.tag # "Some" THEN result
                          ELSE parse_rparen(toks, result, i + 1)
           [] token.kind = "Name"    -> PSome(VariableRef(token.str), i + 1)
           [] token.kind = "Integer" -> PSome(IntegerLiteral(token.int), i + 1)
           [] token.kind = "String"  -> PSome(StringLiteral(token.str), i + 1)
           [] OTHER -> PErr(Unexpeced, readable_name(token), i + 1, i + 1)

----------------------------------------------------------------------------
(* Diagnostics: Pos::from_offset, util::Fill and report_error *)

\* str::split_inclusive('\n'): the pieces of src, each with its newline
RECURSIVE split_inclusive(_, _)
split_inclusive(src, piece) ==
    IF src = <<>> THEN (IF piece = <<>> THEN <<>> ELSE <<piece>>)
    ELSE IF Head(src) = "\n"
         THEN <<Append(piece, "\n")>> \o split_inclusive(Tail(src), <<>>)
         ELSE split_inclusive(Tail(src), Append(piece, Head(src)))

\* what str::lines maps over each piece: strip_suffix('\n'), then
\* strip_suffix('\r') if there was a newline
strip_line_ending(piece) ==
    IF piece = <<>> \/ piece[Len(piece)] # "\n" THEN piece
    ELSE LET line == SubSeq(piece, 1, Len(piece) - 1) IN
         IF line = <<>> \/ line[Len(line)] # "\r" THEN line
         ELSE SubSeq(line, 1, Len(line) - 1)

\* str::lines, collected
lines(src) ==
    LET pieces == split_inclusive(src, <<>>) IN
    [k \in 1..Len(pieces) |-> strip_line_ending(pieces[k])]

\* from_offset's loop with the column counted from 0 after a newline
RECURSIVE from_offset_loop_zero(_, _, _, _, _)
from_offset_loop_zero(src, pos, idx, line, column) ==
    IF idx >= Len(src) \/ idx = pos THEN [line |-> line, column |-> column]
    ELSE IF src[idx + 1] = "\n"
         THEN from_offset_loop_zero(src, pos, idx + 1, line + 1, 0)
         ELSE from_offset_loop_zero(src, pos, idx + 1, line, column + 1)

\* from_offset's loop over char_indices, at index idx
RECURSIVE from_offset_loop(_, _, _, _, _)
from_offset_loop(src, pos, idx, line, column) ==
    IF idx >= Len(src) \/ idx = pos THEN [line |-> line, column |-> column]
    ELSE IF src[idx + 1] = "\n"
         THEN from_offset_loop(src, pos, idx + 1, line + 1, 1)
         ELSE from_offset_loop(src, pos, idx + 1, line, column + 1)

\* Pos{line, column, line_content}, or the panic of nth(line - 1).unwrap()
Pos(line, column, line_content) ==
    [tag |-> "Ok", line |-> line, column |-> column, line_content |-> line_content]

PosPanic == [tag |-> "Panic", line |-> 0, column |-> 0, line_content |-> <<>>]

from_offset(src, pos) ==
    LET at == from_offset_loop(src, pos, 0, 1, 1)
        ls == lines(src)
    IN  IF at.line - 1 < Len(ls)
        THEN Pos(at.line, at.column, ls[at.line])
        ELSE PosPanic

\* Fill::with(len, ch) as its Display writes it: ch, len times
Fill(len, ch) == [k \in 1..len |-> ch]

\* What report_error leaves before process::exit(1): the position it
\* resolved and the text it printed under the line's content (after the
\* ` {line} | ` prefix); a panic of from_offset prints nothing
Diag(tag, pos, line, column, line_content, caret) ==
    [tag |-> tag, pos |-> pos, line |-> line, column |-> column,
     line_content |-> line_content, caret |-> caret]

NoDiag == Diag("", 0, 0, 0, <<>>, <<>>)

report_error(src, offset) ==
    LET pos == from_offset(src, offset) IN
    IF pos.tag = "Panic" THEN Diag("Panic", offset, 0, 0, <<>>, <<>>)
    ELSE Diag("Ok", offset, pos.line, pos.column, pos.line_content,
              Append(Fill(pos.column - 1, " "), "~"))

----------------------------------------------------------------------------
(* main: tokenize, one iteration of the outer loop per step *)

\* no parse_expr call made yet
NoLast == [start |-> 0, out |-> NoOutcome]

Init ==
    /\ source \in AllSources
    /\ pc = "tokenize"
    /\ it = 0
    /\ c = NoConsumed
    /\ tokens = <<>>
    /\ tokErr = NoTokErr
    /\ pit = 0
    /\ last = NoLast
    /\ forms = <<>>
    /\ calls = 0
    /\ diag = NoDiag

\* TokStep with main going on to the parser after an Err of tokenize
TokStep_ignore_error(r) ==
    /\ c' = consume_next(source, it)
    /\ it' = r.it
    /\ IF r.err # NoTokErr
       THEN /\ tokErr' = r.err
            /\ tokens' = tokens
            /\ pc' = "parse"
       ELSE /\ tokErr' = tokErr
            /\ tokens' = (IF r.push THEN Append(tokens, r.tok) ELSE tokens)
            /\ pc' = pc
    /\ UNCHANGED <<source, pit, last, forms, calls, diag>>

\* the effect of one arm on the tokenizer's state
TokStep(r) ==
    /\ c' = consume_next(source, it)
    /\ it' = r.it
    /\ IF r.err # NoTokErr
       THEN /\ tokErr' = r.err
            /\ tokens' = tokens
            /\ pc' = "tokenize_error"
       ELSE /\ tokErr' = tokErr
            /\ tokens' = (IF r.push THEN Append(tokens, r.tok) ELSE tokens)
            /\ pc' = pc
    /\ UNCHANGED <<source, pit, last, forms, calls, diag>>

TokSimple ==
    /\ pc = "tokenize" /\ it < Len(source)
    /\ IsSimple(consume_next(source, it))
    /\ TokStep(arm(source, it))

TokString ==
    /\ pc = "tokenize" /\ it < Len(source)
    /\ IsString(consume_next(source, it))
    /\ TokStep(arm(source, it))

TokInteger ==
    /\ pc = "tokenize" /\ it < Len(source)
    /\ IsInteger(consume_next(source, it))
    /\ TokStep(arm(source, it))

TokComment ==
    /\ pc = "tokenize" /\ it < Len(source)
    /\ IsComment(consume_next(source, it))
    /\ TokStep(arm(source, it))

TokName ==
    /\ pc = "tokenize" /\ it < Len(source)
    /\ IsName(consume_next(source, it))
    /\ TokStep(arm(source, it))

TokOther ==
    /\ pc = "tokenize" /\ it < Len(source)
    /\ IsOther(consume_next(source, it))
    /\ TokStep(arm(source, it))

\* consume_next returns None: tokenize returns Ok(tokens)
TokEnd ==
    /\ pc = "tokenize" /\ it >= Len(source)
    /\ pc' = "parse"
    /\ UNCHANGED <<source, it, c, tokens, tokErr, pit, last, forms, calls, diag>>

\* one iteration of main's loop: parse_expr, then print the expression,
\* break on None, report_error on a ParseError; a panic aborts the process
ParseNext ==
    /\ pc = "parse"
    /\ LET r == parse_expr(tokens, pit) IN
       /\ last' = [start |-> pit, out |-> r]
       /\ pit' = r.it
       /\ calls' = calls + 1
       /\ pc' = CASE r.tag = "Some"  -> "parse"
                  [] r.tag = "None"  -> "done"
                  [] r.tag = "Err"   -> "parse_error"
                  [] r.tag = "Panic" -> "panic"
    /\ UNCHANGED <<source, it, c, tokens, tokErr, forms, diag>>

\* unwrap_or_else(|e| report_error(&contents, &e)) on an Err of tokenize or
\* of parse_expr: resolve the error's offset, print, exit
ReportError ==
    /\ pc \in {"tokenize_error", "parse_error"}
    /\ diag = NoDiag
    /\ diag' = report_error(source, IF pc = "tokenize_error" THEN tokErr.pos
                                    ELSE tokens[last.out.token].pos)
    /\ UNCHANGED <<source, pc, it, c, tokens, tokErr, pit, last, forms, calls>>

Next ==
    \/ TokSimple
    \/ TokString
    \/ TokInteger
    \/ TokComment
    \/ TokName
    \/ TokOther
    \/ TokEnd
    \/ ParseNext
    \/ ReportError

\* main on every source text within the bounds
Spec == Init /\ [][Next]_vars

----------------------------------------------------------------------------
(* The parser on every token sequence within the bounds: main after       *)
(* tokenize returned the sequence                                         *)

\* a token before its offset is known
Proto(kind, str, int) == Token(kind, str, int, 0)

\* i64's Display: the decimal text of n
DecimalDigits == <<"0", "1", "2", "3", "4", "5", "6", "7", "8", "9">>

RECURSIVE to_string(_)
to_string(n) ==
    IF n < 0 THEN <<"-">> \o to_string(-n)
    ELSE IF n < 10 THEN <<DecimalDigits[n + 1]>>
    ELSE Append(to_string(n \div 10), DecimalDigits[(n % 10) + 1])

\* a string value written with the tokenizer's three escapes
RECURSIVE escape(_)
escape(str) ==
    IF str = <<>> THEN <<>>
    ELSE (CASE Head(str) = "\"" -> <<"\\", "\"">>
            [] Head(str) = "\t" -> <<"\\", "t">>
            [] Head(str) = "\n" -> <<"\\", "n">>
            [] OTHER -> <<Head(str)>>) \o escape(Tail(str))

\* the source text of one token
TokenText(tok) ==
    CASE tok.kind = "LParen"   -> <<"(">>
      [] tok.kind = "RParen"   -> <<")">>
      [] tok.kind = "LBracket" -> <<"[">>
      [] tok.kind = "RBracket" -> <<"]">>
      [] tok.kind = "Quote"    -> <<"'">>
      [] tok.kind = "Name"     -> tok.str
      [] tok.kind = "Integer"  -> to_string(tok.int)
      [] tok.kind = "String"   -> <<"\"">> \o escape(tok.str) \o <<"\"">>

\* the source text of a token sequence: the tokens' texts, one space between
RECURSIVE Render(_)
Render(toks) ==
    IF toks = <<>> THEN <<>>
    ELSE IF Len(toks) = 1 THEN TokenText(toks[1])
    ELSE TokenText(toks[1]) \o <<" ">> \o Render(Tail(toks))

\* the tokens with their offsets in Render(toks); off is the offset of the first
RECURSIVE WithPos(_, _)
WithPos(toks, off) ==
    IF toks = <<>> THEN <<>>
    ELSE <<[toks[1] EXCEPT !.pos = off]>>
         \o WithPos(Tail(toks), off + Len(TokenText(toks[1])) + 1)

GenericName == <<"x">>

CoreProtos ==
    {Proto("LParen", <<>>, 0), Proto("RParen", <<>>, 0),
     Proto("Name", KwFn, 0), Proto("Name", KwLet, 0), Proto("Name", GenericName, 0),
     Proto("Integer", <<>>, 1)}

AllProtos ==
    CoreProtos \cup
    {Proto("LBracket", <<>>, 0), Proto("RBracket", <<>>, 0), Proto("Quote", <<>>, 0),
     Proto("Name", KwDo, 0), Proto("Name", KwArgs, 0),
     Proto("String", <<"s">>, 0)}

AllTokenSeqs ==
    (UNION {[1..n -> AllProtos] : n \in 0..MaxTokens})
    \cup (UNION {[1..n -> CoreProtos] : n \in 0..MaxCoreTokens})

\* main's state when tokenize has returned toks for their source text
ParseStart(toks) ==
    /\ source = Render(toks)
    /\ pc = "parse"
    /\ it = Len(source)
    /\ c = NoConsumed
    /\ tokens = WithPos(toks, 0)
    /\ tokErr = NoTokErr
    /\ pit = 0
    /\ last = NoLast
    /\ calls = 0
    /\ diag = NoDiag

InitParse == \E toks \in AllTokenSeqs : forms = <<>> /\ ParseStart(toks)

NextParse == ParseNext

SpecParse == InitParse /\ [][NextParse]_vars

\* the token sequences of SpecParse are the ones tokenize gives for their source
RenderConsistent == tokenize(source) = TokOk(tokens)

----------------------------------------------------------------------------
(* The parser on the texts of generated expressions: the reference grammar *)

TypeName == <<"i", "n", "t">>

Atoms ==
    {VariableRef(GenericName), IntegerLiteral(1), StringLiteral(<<"s">>)}

\* The expressions and the sequences of expressions by the number of tokens of
\* their text: a table [E, S] where E[k] is the set of expressions of exactly k
\* tokens and S[k + 1] the set of sequences of expressions of k tokens together
\* (kept for the k a list inside an expression of MaxFormTokens tokens can have)
FormsLevel(t, n) ==
    IF n = 1 THEN Atoms
    ELSE IF n < 3 THEN {}
    ELSE LET lists == t.S[n - 2] IN
         {Do(l) : l \in lists}
         \cup {Args(l) : l \in lists}
         \cup {FnCall(GenericName, l) : l \in lists}
         \cup (IF n = 5 THEN {Let(GenericName, TypeName)} ELSE {})
         \cup UNION {{DefineFn(GenericName, a, b) : a \in t.E[j], b \in t.E[n - 4 - j]} :
                       j \in 1..(n - 5)}

SeqsLevel(E, S, m) ==
    UNION {{<<e>> \o r : e \in E[j], r \in S[m - j + 1]} : j \in 1..m}

RECURSIVE FormsTable(_)
FormsTable(n) ==
    IF n = 0 THEN [E |-> <<>>, S |-> <<{<<>>}>>]
    ELSE LET t == FormsTable(n - 1)
             E == Append(t.E, FormsLevel(t, n))
         IN  [E |-> E,
              S |-> IF n + 3 <= MaxFormTokens
                    THEN Append(t.S, SeqsLevel(E, t.S, n)) ELSE t.S]

\* the text of an expression, as tokens: the grammar of the language
RECURSIVE Unparse(_), UnparseAll(_)
Unparse(e) ==
    LET lp == Proto("LParen", <<>>, 0)
        rp == Proto("RParen", <<>>, 0)
    IN
    CASE e.node = "VariableRef"    -> <<Proto("Name", e.str, 0)>>
      [] e.node = "IntegerLiteral" -> <<Proto("Integer", <<>>, e.int)>>
      [] e.node = "StringLiteral"  -> <<Proto("String", e.str, 0)>>
      [] e.node = "FnCall"  -> <<lp, Proto("Name", e.str, 0)>> \o UnparseAll(e.kids) \o <<rp>>
      [] e.node = "Args"    -> <<lp, Proto("Name", KwArgs, 0)>> \o UnparseAll(e.kids) \o <<rp>>
      [] e.node = "Do"      -> <<lp, Proto("Name", KwDo, 0)>> \o UnparseAll(e.kids) \o <<rp>>
      [] e.node = "DefineFn" ->
            <<lp, Proto("Name", KwFn, 0), Proto("Name", e.str, 0)>>
            \o Unparse(e.kids[1]) \o Unparse(e.kids[2]) \o <<rp>>
      [] e.node = "Let" ->
            <<lp, Proto("Name", KwLet, 0), Proto("Name", e.str, 0),
              Proto("Name", e.type, 0), rp>>

UnparseAll(es) ==
    IF es = <<>> THEN <<>> ELSE Unparse(Head(es)) \o UnparseAll(Tail(es))

\* (fn add (args a b) (do (+ a b)))
ExampleFn ==
    DefineFn(<<"a", "d", "d">>,
             Args(<<VariableRef(<<"a">>), VariableRef(<<"b">>)>>),
             Do(<<FnCall(<<"+">>, <<VariableRef(<<"a">>), VariableRef(<<"b">>)>>)>>))

\* one or two expressions of at most MaxFormTokens tokens together, and the example
GrammarInputs ==
    LET E == FormsTable(MaxFormTokens).E IN
    (UNION {{<<e>> : e \in E[n]} : n \in 1..MaxFormTokens})
    \cup (UNION {{<<a, b>> : a \in E[j[1]], b \in E[j[2]]} :
                   j \in {k \in (1..MaxFormTokens) \X (1..MaxFormTokens) :
                            k[1] + k[2] <= MaxFormTokens}})
    \cup {<<ExampleFn>>}

InitGrammar == \E fs \in GrammarInputs : forms = fs /\ ParseStart(UnparseAll(fs))

SpecGrammar == InitGrammar /\ [][NextParse]_vars

----------------------------------------------------------------------------
(* main with its loops scheduled: a process runs until it exits *)

\* longest source text of a scheduled run
MaxRunLen == 4

\* a character of each arm of tokenize, of each kind of ParseError
RunAlphabet == {"(", ")", "\"", "#", " ", "\n", "1", "x"}

RunSources == UNION {[1..n -> RunAlphabet] : n \in 0..MaxRunLen}

InitRun ==
    /\ source \in RunSources
    /\ pc = "tokenize"
    /\ it = 0
    /\ c = NoConsumed
    /\ tokens = <<>>
    /\ tokErr = NoTokErr
    /\ pit = 0
    /\ last = NoLast
    /\ forms = <<>>
    /\ calls = 0
    /\ diag = NoDiag

FairSpec == InitRun /\ [][Next]_vars /\ WF_vars(Next)

----------------------------------------------------------------------------
(* report_error on every source text and offset within the bounds *)

\* longest source text whose positions are resolved
MaxPosLen == 5

\* a letter, a space and the two characters of line endings
PosAlphabet == {"a", " ", "\n", "\r"}

PosSources == UNION {[1..n -> PosAlphabet] : n \in 0..MaxPosLen}

InitPos ==
    /\ source \in PosSources
    /\ pc = "resolve"
    /\ it = 0
    /\ c = NoConsumed
    /\ tokens = <<>>
    /\ tokErr = NoTokErr
    /\ pit = 0
    /\ last = NoLast
    /\ forms = <<>>
    /\ calls = 0
    /\ diag = NoDiag

\* report_error called with an offset up to the length of the source
Resolve ==
    /\ pc = "resolve"
    /\ \E offset \in 0..Len(source) : diag' = report_error(source, offset)
    /\ pc' = "resolved"
    /\ UNCHANGED <<source, it, c, tokens, tokErr, pit, last, forms, calls>>

NextPos == Resolve

SpecPos == InitPos /\ [][NextPos]_vars

----------------------------------------------------------------------------
(* Properties of the tokenizer. They read the state an iteration of the   *)
(* outer loop leaves: c is the character the iteration began with, it the *)
(* iterator after it, and the source text itself.                         *)

\* the character at offset p of src, NoChar past its end
CharAt(src, p) == IF p < Len(src) THEN src[p + 1] ELSE NoChar

\* an iteration of the outer loop has run
Consumed == c.this # NoChar

\* tokenize has returned Err
Failed == pc = "tokenize_error"

\* tokenize has returned Ok(tokens)
Tokenized == pc \notin {"tokenize", "tokenize_error"}

\* the latest token pushed
LastToken == tokens[Len(tokens)]

Whitespace == {" ", "\n", "\t", "\r"}
Punctuation == {"(", ")", "[", "]", "'"}
DecDigits == {"0", "1", "2", "3", "4", "5", "6", "7", "8", "9"}
HexDigits == DecDigits \cup {"a", "b", "c", "d", "e", "f", "A", "B", "C", "D", "E", "F"}

\* the first offset from p on whose character is not in chars (Len(src) if none)
RECURSIVE SkipWhile(_, _, _)
SkipWhile(src, p, chars) ==
    IF p < Len(src) /\ src[p + 1] \in chars THEN SkipWhile(src, p + 1, chars) ELSE p

\* the first offset from p on whose character is in chars (Len(src) if none)
RECURSIVE SkipUntil(_, _, _)
SkipUntil(src, p, chars) ==
    IF p < Len(src) /\ src[p + 1] \notin chars THEN SkipUntil(src, p + 1, chars) ELSE p

\* How the string literal ends whose body continues at offset p: "closed" by
\* an unescaped quote, "escape" at a backslash followed by a character that
\* is no escape, "backslash" at a final backslash, "open" at the end of input
RECURSIVE StringFate(_, _)
StringFate(src, p) ==
    IF p >= Len(src) THEN "open"
    ELSE IF src[p + 1] = "\""  THEN "closed"
    ELSE IF src[p + 1] # "\\" THEN StringFate(src, p + 1)
    ELSE IF p + 1 >= Len(src) THEN "backslash"
    ELSE IF src[p + 2] \in {"\"", "t", "n"} THEN StringFate(src, p + 2)
    ELSE "escape"

\* the latest iteration began at the opening quote of a string literal that
\* the end of input cuts short
CutString ==
    /\ Consumed
    /\ c.this = "\""
    /\ StringFate(source, c.pos + 1) \in {"open", "backslash"}

\* C2 as stated: a string literal cut short by the end of input fails with
\* UnterminatedString at the offset of the last character of the source.
C2_AtLastCharacter ==
    CutString => /\ Failed
                 /\ tokErr.message = UnterminatedString
                 /\ tokErr.pos = Len(source) - 1

\* C2, amended: a string literal cut short by the end of input fails with
\* UnterminatedString at the offset of its opening quote; when the last
\* character of the source is a backslash that starts an escape it fails
\* with "Unexpected end of file" at the offset of that backslash.
C2_AtOpeningQuote ==
    CutString =>
       /\ Failed
       /\ StringFate(source, c.pos + 1) = "open" =>
             tokErr = TokenizeError(UnterminatedString, NoChar, c.pos)
       /\ StringFate(source, c.pos + 1) = "backslash" =>
             tokErr = TokenizeError(UnexpectedEndOfFile, NoChar, Len(source) - 1)

\* an unterminated string after another token, with characters in it
C2_Witness ==
    /\ CutString
    /\ Failed
    /\ tokErr.message = UnterminatedString
    /\ 0 < tokErr.pos
    /\ tokErr.pos < Len(source) - 1
    /\ tokens # <<>>

\* C3 as stated: every failure of tokenize is UnknownEscapeSequence,
\* UnterminatedString or InvalidIntegerCharacter, and a string literal cut
\* short by the end of input, a final backslash included, is UnterminatedString.
C3_ThreeKinds ==
    /\ Failed => tokErr.message \in
                   {UnknownEscapeSequence, UnterminatedString, InvalidIntegerCharacter}
    /\ CutString => (Failed /\ tokErr.message = UnterminatedString)

\* C3, amended: every failure of tokenize is one of four kinds, the three
\* and "Unexpected end of file"; a string literal cut short by the end of
\* input is UnterminatedString unless the source ends with a backslash that
\* starts an escape, and exactly then it is "Unexpected end of file".
C3_FourKinds ==
    /\ Failed => tokErr.message \in
                   {UnknownEscapeSequence, UnterminatedString,
                    InvalidIntegerCharacter, UnexpectedEndOfFile}
    /\ CutString =>
          /\ Failed
          /\ tokErr.message =
                (IF StringFate(source, c.pos + 1) = "backslash"
                 THEN UnexpectedEndOfFile ELSE UnterminatedString)
    /\ (Failed /\ tokErr.message \in {UnexpectedEndOfFile, UnterminatedString})
          => CutString

\* a string with an escape in it, then a final backslash
C3_Witness ==
    /\ Failed
    /\ tokErr.message = UnexpectedEndOfFile
    /\ c.this = "\""
    /\ c.pos + 3 < Len(source)
    /\ source[c.pos + 2] = "\\"

\* the offset at which the string literal whose body continues at offset
\* p ends: of its closing quote, of the backslash of an unknown escape or
\* of a final backslash, or the length of src
RECURSIVE StringStop(_, _)
StringStop(src, p) ==
    IF p >= Len(src) THEN p
    ELSE IF src[p + 1] = "\""  THEN p
    ELSE IF src[p + 1] # "\\" THEN StringStop(src, p + 1)
    ELSE IF p + 1 >= Len(src) THEN p
    ELSE IF src[p + 2] \in {"\"", "t", "n"} THEN StringStop(src, p + 2)
    ELSE p

\* the value of a string literal's body made of characters and the three escapes
RECURSIVE Decoded(_)
Decoded(body) ==
    IF body = <<>> THEN <<>>
    ELSE IF Head(body) # "\\" THEN <<Head(body)>> \o Decoded(Tail(body))
    ELSE (CASE body[2] = "\"" -> <<"\"">>
            [] body[2] = "t"  -> <<"\t">>
            [] body[2] = "n"  -> <<"\n">>) \o Decoded(Tail(Tail(body)))

\* the latest iteration began at the opening quote of a string literal
AtString == Consumed /\ c.this = "\""

\* C11: a string literal's value is its body with backslash-quote,
\* backslash-t and backslash-n decoded to `"`, tab and newline and every
\* other character copied; the literal ends at the first quote that no
\* backslash escapes; a backslash before any other character makes tokenize
\* fail with UnknownEscapeSequence at the offset of that backslash.
C11_Escapes ==
    AtString =>
       LET stop == StringStop(source, c.pos + 1)
           fate == StringFate(source, c.pos + 1)
       IN  /\ fate = "closed" =>
                /\ ~Failed
                /\ it = stop + 1
                /\ tokens # <<>>
                /\ LastToken =
                      new_string(Decoded(SubSeq(source, c.pos + 2, stop)), c.pos)
           /\ fate = "escape" =>
                /\ Failed
                /\ tokErr = TokenizeError(UnknownEscapeSequence, source[stop + 2], stop)
           /\ (Failed /\ tokErr.message = UnknownEscapeSequence) => fate = "escape"

\* an unknown escape after a decoded one
C11_Witness ==
    /\ AtString
    /\ Failed
    /\ tokErr.message = UnknownEscapeSequence
    /\ tokErr.pos = c.pos + 3
    /\ source[c.pos + 2] = "\\"
    /\ tokErr.detail = "x"

\* src from offset p on is whitespace and line comments only
RECURSIVE OnlyBlank(_, _)
OnlyBlank(src, p) ==
    IF p >= Len(src) THEN TRUE
    ELSE IF src[p + 1] \in Whitespace THEN OnlyBlank(src, p + 1)
    ELSE IF src[p + 1] = "#" THEN OnlyBlank(src, SkipUntil(src, p, {"\n"}) + 1)
    ELSE FALSE

\* C12: for a source of whitespace and line comments only, whatever the
\* comments contain, tokenize returns the empty token sequence and no
\* error (and the parse of no tokens ends the run without an error).
C12_BlankSource ==
    OnlyBlank(source, 0) =>
       /\ tokens = <<>>
       /\ tokErr = NoTokErr
       /\ pc \in {"tokenize", "parse", "done"}

\* a comment holding a quote and a parenthesis, tokenized
C12_Witness ==
    /\ OnlyBlank(source, 0)
    /\ Tokenized
    /\ tokens = <<>>
    /\ source = <<"#", "\"", "(">>

\* the characters before which a token can start: the token before it has
\* ended, or whitespace or a comment's newline stands there
Boundary == Whitespace \cup Punctuation \cup {"\""}

\* the least number of characters of a token's text
MinLength(tok) ==
    CASE tok.kind = "Name"   -> Len(tok.str)
      [] tok.kind = "String" -> Len(tok.str) + 2
      [] OTHER               -> 1

\* C5: when tokenize succeeds, each token's offset is the offset of the
\* first character of its text (the opening quote of a string, the `-` or
\* first digit of an integer), and the offsets increase strictly along the
\* sequence, each token starting after the text of the one before.
C5_Offsets ==
    Tokenized =>
       /\ \A k \in 1..Len(tokens) :
             LET tok == tokens[k]
                 ch  == CharAt(source, tok.pos)
             IN  /\ tok.pos < Len(source)
                 /\ CASE tok.kind = "LParen"   -> ch = "("
                      [] tok.kind = "RParen"   -> ch = ")"
                      [] tok.kind = "LBracket" -> ch = "["
                      [] tok.kind = "RBracket" -> ch = "]"
                      [] tok.kind = "Quote"    -> ch = "'"
                      [] tok.kind = "String"   -> ch = "\""
                      [] tok.kind = "Integer"  ->
                            \/ ch \in DecDigits
                            \/ ch = "-" /\ CharAt(source, tok.pos + 1) \in DecDigits
                      [] tok.kind = "Name"     ->
                            SubSeq(source, tok.pos + 1, tok.pos + Len(tok.str)) = tok.str
                 /\ (tok.kind \in {"Integer", "Name"} /\ tok.pos > 0)
                       => CharAt(source, tok.pos - 1) \in Boundary
       /\ \A k \in 1..(Len(tokens) - 1) :
             tokens[k].pos + MinLength(tokens[k]) <= tokens[k + 1].pos

\* a string, an integer and a name, each at a later offset
C5_Witness ==
    /\ Tokenized
    /\ Len(tokens) = 3
    /\ tokens[1].kind = "String"
    /\ tokens[2].kind = "Integer"
    /\ tokens[3].kind = "Name"
    /\ tokens[2].pos > 1

\* base to the power of n
RECURSIVE Power(_, _)
Power(base, n) == IF n = 0 THEN 1 ELSE base * Power(base, n - 1)

\* the number the digits write in the base: each digit times the power of
\* the base of its place
RECURSIVE Positional(_, _)
Positional(digits, base) ==
    IF digits = <<>> THEN 0
    ELSE DigitValue[Head(digits)] * Power(base, Len(digits) - 1)
         + Positional(Tail(digits), base)

\* the text from offset p up to whitespace, `)`, `]` or the end of input
TextAt(src, p) ==
    SubSeq(src, p + 1, SkipUntil(src, p, Whitespace \cup {")", "]"}))

IsDigits(text, digits) == text # <<>> /\ \A k \in 1..Len(text) : text[k] \in digits

\* 0x and hexadecimal digits
IsHexLiteral(text) ==
    /\ Len(text) > 2
    /\ text[1] = "0"
    /\ text[2] = "x"
    /\ IsDigits(SubSeq(text, 3, Len(text)), HexDigits)

\* an optional `-` and decimal digits
IsDecLiteral(text) ==
    /\ text # <<>>
    /\ IsDigits(IF text[1] = "-" THEN Tail(text) ELSE text, DecDigits)

\* the mathematical value of a literal
LiteralValue(text) ==
    IF IsHexLiteral(text) THEN Positional(SubSeq(text, 3, Len(text)), 16)
    ELSE IF text[1] = "-" THEN 0 - Positional(Tail(text), 10)
    ELSE Positional(text, 10)

\* C7: an integer literal, an optional `-` and decimal digits or 0x and
\* hexadecimal digits, ended by whitespace, `)`, `]` or the end of input,
\* gives one integer token with the literal's mathematical value, at the
\* literal's offset, and the tokenizer goes on right after the literal.
C7_LiteralValue ==
    LET text == TextAt(source, c.pos) IN
    (Consumed /\ (IsHexLiteral(text) \/ IsDecLiteral(text)))
    => /\ ~Failed
       /\ tokens # <<>>
       /\ LastToken = new_integer(LiteralValue(text), c.pos)
       /\ it = c.pos + Len(text)

\* 0x1F gives 31
C7_Witness ==
    /\ Consumed
    /\ TextAt(source, c.pos) = <<"0", "x", "1", "F">>
    /\ tokens # <<>>
    /\ LastToken.int = 31

\* the latest iteration began at the first character of an integer literal
AtInteger ==
    /\ Consumed
    /\ \/ c.this \in DecDigits
       \/ c.this = "-" /\ CharAt(source, c.pos + 1) \in DecDigits

\* C8: the scan of an integer literal stops without error only at
\* whitespace, `)`, `]` or the end of input; the first other character
\* that is not a digit of the literal's base makes tokenize fail with
\* InvalidIntegerCharacter at the offset of that character.
C8_InvalidCharacter ==
    AtInteger =>
       LET hex  == c.this = "0" /\ CharAt(source, c.pos + 1) = "x"
           stop == SkipWhile(source, c.pos + (IF hex THEN 2 ELSE 1),
                             IF hex THEN HexDigits ELSE DecDigits)
       IN  IF CharAt(source, stop) \in Whitespace \cup {")", "]", NoChar}
           THEN /\ ~Failed
                /\ it = stop
                /\ tokens # <<>>
                /\ LastToken.kind = "Integer"
                /\ LastToken.pos = c.pos
           ELSE /\ Failed
                /\ tokErr = TokenizeError(InvalidIntegerCharacter, NoChar, stop)

\* -0x: the x is not a decimal digit
C8_Witness ==
    /\ AtInteger
    /\ Failed
    /\ c.this = "-"
    /\ tokErr.pos = 2
    /\ source[2] = "0"
    /\ source[3] = "x"

\* the latest iteration began at the first character of a name
AtName ==
    /\ Consumed
    /\ c.this \notin Punctuation \cup Whitespace \cup {"\"", "#"}
    /\ ~AtInteger

\* C10: a name extends until the next character is whitespace, `(`, `)`,
\* `"` or the end of input, so `[`, `]`, `'` and `#` after its first
\* character are part of it; at the start of a token `[`, `]` and `'` are
\* tokens of one character and `#` starts a comment, which gives no token.
C10_GreedyName ==
    /\ AtName =>
          LET stop == SkipUntil(source, c.pos + 1, Whitespace \cup {"(", ")", "\""})
          IN  /\ ~Failed
              /\ it = stop
              /\ tokens # <<>>
              /\ LastToken = new_name(SubSeq(source, c.pos + 1, stop), c.pos)
    /\ (Consumed /\ c.this \in {"[", "]", "'"}) =>
          /\ it = c.pos + 1
          /\ tokens # <<>>
          /\ LastToken.pos = c.pos
          /\ LastToken.kind = (CASE c.this = "[" -> "LBracket"
                                 [] c.this = "]" -> "RBracket"
                                 [] c.this = "'" -> "Quote")
    /\ (Consumed /\ c.this = "#") =>
          /\ ~Failed
          /\ \A k \in 1..Len(tokens) : tokens[k].pos < c.pos
          /\ \/ it = Len(source) /\ "\n" \notin {source[k] : k \in (c.pos + 1)..Len(source)}
             \/ /\ source[it] = "\n"
                /\ "\n" \notin {source[k] : k \in (c.pos + 1)..(it - 1)}

\* x[' is one name
C10_Witness ==
    /\ AtName
    /\ tokens # <<>>
    /\ LastToken.str = <<"x", "[", "'">>

\* C17: the decimal text of the value of an integer token tokenizes to one
\* integer token of that value; the value of a string token, written with
\* `"`, tab and newline as backslash-quote, backslash-t and backslash-n and
\* enclosed in double quotes, tokenizes to one string token of that value.
C17_RoundTrip ==
    \A k \in 1..Len(tokens) :
       LET tok == tokens[k] IN
       /\ tok.kind = "Integer" =>
             tokenize(to_string(tok.int)) = TokOk(<<new_integer(tok.int, 0)>>)
       /\ tok.kind = "String" =>
             tokenize(<<"\"">> \o escape(tok.str) \o <<"\"">>)
                = TokOk(<<new_string(tok.str, 0)>>)

\* a string literal with a raw newline in it: its value is written back
\* with the escape
C17_Witness ==
    /\ Tokenized
    /\ Len(tokens) = 1
    /\ tokens[1].kind = "String"
    /\ tokens[1].str = <<"\n">>
    /\ Len(source) = 3
    /\ Len(escape(tokens[1].str)) = 2

\* the characters of the values of the string tokens
StringCharacters ==
    UNION {{tokens[k].str[j] : j \in 1..Len(tokens[k].str)} :
             k \in {n \in 1..Len(tokens) : tokens[n].kind = "String"}}

\* C20: no string token's value holds a backslash: a backslash in a string
\* literal starts one of the three escapes, none of which gives a
\* backslash, or makes tokenize fail.
C20_NoBackslash ==
    /\ "\\" \notin StringCharacters
    /\ (AtString /\ "\\" \in {source[k] : k \in (c.pos + 2)..it}) =>
          \/ Failed
          \/ /\ LastToken.kind = "String"
             /\ Len(LastToken.str) < it - (c.pos + 2)

\* a string literal made of one escape, tokenized
C20_Witness ==
    /\ AtString
    /\ ~Failed
    /\ Len(source) = 5
    /\ source[2] = "\\"
    /\ LastToken.str = <<"\n">>
    /\ it = 4

----------------------------------------------------------------------------
(* Properties of the parser *)

\* main's loop has ended: by None, by report_error or by a panic
RunEnded == pc \in {"done", "parse_error", "panic"}

\* a parse_expr call of main's loop has returned
Called == last.out.tag # ""

\* the latest call's outcome is the ParseError with this message, borrowing token tok
IsParseError(message, tok) ==
    /\ last.out.tag = "Err"
    /\ last.out.message = message
    /\ last.out.token = tok

\* opening parentheses minus closing parentheses
RECURSIVE Depth(_)
Depth(toks) ==
    IF toks = <<>> THEN 0
    ELSE Depth(Tail(toks))
         + (CASE Head(toks).kind = "LParen" -> 1
              [] Head(toks).kind = "RParen" -> -1
              [] OTHER -> 0)

\* the process has exited: main returned, report_error exited, or a panic
Exited ==
    \/ pc \in {"done", "panic"}
    \/ pc \in {"tokenize_error", "parse_error"} /\ diag # NoDiag

\* what holds of the cursor and the calls in every state of a run
RunInvariant ==
    /\ tokErr # NoTokErr => (pc = "tokenize_error" /\ calls = 0 /\ last = NoLast /\ pit = 0)
    /\ pc = "tokenize" => calls = 0
    /\ calls > 0 <=> Called
    /\ pit <= Len(tokens)
    /\ calls <= Len(tokens) + 1
    /\ Called =>
          /\ last.out.tag = "Some" => (pit > last.start /\ pc = "parse")
          /\ last.out.tag = "None" <=> last.start = Len(tokens)
          /\ last.out.tag = "None" => pc = "done"
          /\ last.out.tag = "Err" => pc = "parse_error"

\* what holds of every step of a run
RunStep ==
    /\ pit' >= pit
    /\ calls' # calls =>
          /\ calls' = calls + 1
          /\ pc = "parse"
          /\ last.out.tag \in {"", "Some"}
          /\ tokErr = NoTokErr
    /\ pc \in {"tokenize_error", "parse_error"} =>
          (diag = NoDiag /\ diag' # NoDiag /\ pc' = pc /\ tokens' = tokens)
    /\ pc \notin {"done", "panic"}

\* C14: a run is fail-fast and ends. After an Err of tokenize no parse call
\* is made; the parse calls move one cursor forward only, a call that
\* returns an expression has moved it by at least one token, None is
\* returned exactly when the call starts at the end of the tokens, no call
\* follows a ParseError, at most one call per token plus one is made, and
\* the process exits.
C14_FailFast ==
    /\ []RunInvariant
    /\ [][RunStep]_vars
    /\ <>[]Exited

\* an expression, then a ParseError reported: two calls for two tokens
C14_Witness ==
    /\ pc = "parse_error"
    /\ calls = 2
    /\ Len(tokens) = 2
    /\ last.start = 1
    /\ diag.tag = "Ok"
    /\ diag.pos = tokens[2].pos

\* the offset of the first character of the line that holds offset p
RECURSIVE LineStart(_, _)
LineStart(src, p) ==
    IF p = 0 \/ src[p] = "\n" THEN p ELSE LineStart(src, p - 1)

\* the text of the line that starts at offset p, without its line ending
\* (a newline, or a carriage return and a newline)
LineText(src, p) ==
    LET e == SkipUntil(src, p, {"\n"})
        crlf == e < Len(src) /\ e > p /\ src[e] = "\r"
    IN  SubSeq(src, p + 1, IF crlf THEN e - 1 ELSE e)

\* C15: for an offset that is the index of a character of the source, the
\* position resolved has line = 1 + the number of newlines below the
\* offset, column = 1 + the number of characters from the start of that
\* line to the offset, and the text of that line without its line ending;
\* the caret is printed after exactly column - 1 spaces.
C15_Position ==
    (diag # NoDiag /\ diag.pos < Len(source)) =>
       LET start == LineStart(source, diag.pos) IN
       /\ diag.tag = "Ok"
       /\ diag.line = 1 + Cardinality({k \in 1..diag.pos : source[k] = "\n"})
       /\ diag.column = 1 + (diag.pos - start)
       /\ diag.line_content = LineText(source, start)
       /\ Len(diag.caret) = diag.column
       /\ \A k \in 1..(diag.column - 1) : diag.caret[k] = " "
       /\ diag.caret[diag.column] = "~"

\* the second character of the second line, which ends with a newline
C15_Witness ==
    /\ diag.tag = "Ok"
    /\ diag.line = 2
    /\ diag.column = 2
    /\ diag.line_content = <<"a", "a">>
    /\ source[Len(source)] = "\n"
    /\ diag.caret = <<" ", "~">>

\* the tokens the latest call consumed
Used == SubSeq(tokens, last.start + 1, last.out.it)

\* C16: the tokens consumed by a call that returns an expression are
\* balanced: as many closing as opening parentheses, no prefix with more
\* closing than opening ones and, for a form, none closed before its last
\* token; they are exactly the text of the expression returned, so each
\* closing parenthesis consumed stands right after the body of its form and
\* none is assumed; the cursor is left right after the last consumed token.
C16_Balanced ==
    (Called /\ last.out.tag = "Some") =>
       /\ pit = last.out.it
       /\ last.start < pit
       /\ pit <= Len(tokens)
       /\ Depth(Used) = 0
       /\ \A k \in 1..(Len(Used) - 1) :
             Depth(SubSeq(Used, 1, k)) >= (IF Used[1].kind = "LParen" THEN 1 ELSE 0)
       /\ [k \in 1..Len(Used) |-> [Used[k] EXCEPT !.pos = 0]] = Unparse(last.out.expr)

\* a call in a call, each closed by its own parenthesis
C16_Witness ==
    /\ Called
    /\ Len(tokens) = 6
    /\ last.start = 0
    /\ last.out.it = 6
    /\ last.out.expr = FnCall(GenericName, <<FnCall(GenericName, <<>>)>>)
    /\ tokens[5].kind = "RParen"

\* the cursor before the first closing parenthesis at nesting level depth
\* from cursor i on, or at the end of the tokens
RECURSIVE FirstClose(_, _, _)
FirstClose(toks, i, depth) ==
    IF i >= Len(toks) THEN i
    ELSE CASE toks[i + 1].kind = "RParen" ->
                 IF depth = 0 THEN i ELSE FirstClose(toks, i + 1, depth - 1)
           [] toks[i + 1].kind = "LParen" -> FirstClose(toks, i + 1, depth + 1)
           [] OTHER -> FirstClose(toks, i + 1, depth)

\* an opening parenthesis followed by the name fn
HasDefineFn ==
    \E k \in 1..(Len(tokens) - 1) :
       tokens[k].kind = "LParen" /\ tokens[k + 1].kind = "Name" /\ tokens[k + 1].str = KwFn

\* C18: the loops of do, args and a call parse a sub-expression only when
\* a token is left and it is no closing parenthesis, so the unwrap in them
\* never sees None (tokens without a fn form never panic); a loop takes at
\* least one token for each sub-expression, and ends before the first
\* closing parenthesis of its own nesting level, left unconsumed, or at the
\* end of the tokens.
C18_Loops ==
    Called =>
       /\ last.out.tag = "Panic" => HasDefineFn
       /\ (/\ last.start + 2 <= Len(tokens)
           /\ tokens[last.start + 1].kind = "LParen"
           /\ tokens[last.start + 2].kind = "Name"
           /\ tokens[last.start + 2].str \notin {KwFn, KwLet})
          => LET body == last.start + 2
                 sub  == parse_form(tokens, body, body)
             IN  /\ sub.tag # "None"
                 /\ sub.tag = "Panic" => HasDefineFn
                 /\ sub.tag = "Some" =>
                       /\ sub.it = FirstClose(tokens, body, 0)
                       /\ Len(sub.expr.kids) <= sub.it - body
                       /\ last.out = (IF sub.it < Len(tokens)
                                      THEN PSome(sub.expr, sub.it + 1)
                                      ELSE PErr(EoiRParen, "", last.start + 1, sub.it))

\* a call whose loop passes a call of its own and ends at the end of the tokens
C18_Witness ==
    /\ Called
    /\ Len(tokens) = 6
    /\ last.start = 0
    /\ tokens[3].kind = "LParen"
    /\ tokens[5].kind = "RParen"
    /\ tokens[6].kind = "Integer"
    /\ IsParseError(EoiRParen, 1)
    /\ parse_form(tokens, 2, 2).it = 6

\* offset is the offset of a character of the source that is no newline
OnCharacter(offset) == offset < Len(source) /\ source[offset + 1] # "\n"

\* C19: the offset of a TokenizeError and the offset of the token of a
\* ParseError are offsets of characters of the source that are no newlines,
\* so report_error resolves them: the line it computes is a line of the
\* source and the column is at least 1.
C19_ErrorOffsets ==
    /\ Failed => OnCharacter(tokErr.pos)
    /\ pc = "parse_error" =>
          /\ last.out.token \in 1..Len(tokens)
          /\ OnCharacter(tokens[last.out.token].pos)
    /\ diag # NoDiag =>
          /\ diag.tag = "Ok"
          /\ diag.line \in 1..Len(lines(source))
          /\ diag.column >= 1
          /\ Len(diag.caret) = diag.column

\* an unterminated string on the second line, reported
C19_Witness ==
    /\ Failed
    /\ tokErr.message = UnterminatedString
    /\ diag.tag = "Ok"
    /\ diag.line = 2
    /\ diag.column = 2
    /\ diag.line_content = <<" ", "\"">>

\* how a diagnostic names a kind of token that starts no expression
KindPhrase(kind) ==
    CASE kind = "RParen"   -> "closing parenthesis"
      [] kind = "LBracket" -> "opening bracket"
      [] kind = "RBracket" -> "closing bracket"
      [] kind = "Quote"    -> "quote"

\* C13: where an expression is expected the next token's kind decides: a
\* name gives a VariableRef of that name, fn, let, do and args included
\* (at the top level and as an argument of a call), an integer an
\* IntegerLiteral, a string a StringLiteral; a closing parenthesis, a bracket
\* or a quote mark gives the "Unexpeced <kind>" ParseError borrowing that
\* token; no token left at the top level gives None.
C13_Dispatch ==
    Called =>
       LET s == last.start IN
       IF s >= Len(tokens) THEN last.out = PNone(s)
       ELSE LET tok == tokens[s + 1] IN
            CASE tok.kind = "Name"    -> last.out = PSome(VariableRef(tok.str), s + 1)
              [] tok.kind = "Integer" -> last.out = PSome(IntegerLiteral(tok.int), s + 1)
              [] tok.kind = "String"  -> last.out = PSome(StringLiteral(tok.str), s + 1)
              [] tok.kind = "LParen"  ->
                    (/\ s + 3 <= Len(tokens)
                     /\ tokens[s + 2].kind = "Name"
                     /\ tokens[s + 2].str \notin {KwFn, KwLet}
                     /\ tokens[s + 3].kind = "Name"
                     /\ last.out.tag = "Some")
                    => last.out.expr.kids[1] = VariableRef(tokens[s + 3].str)
              [] OTHER ->
                    last.out = PErr(Unexpeced, KindPhrase(tok.kind), s + 1, s + 1)

\* a reserved name as an argument of a call, parsed as a variable
C13_Witness ==
    /\ Called
    /\ last.start = 0
    /\ Len(tokens) = 4
    /\ tokens[3].str = KwFn
    /\ last.out.tag = "Some"
    /\ last.out.expr = FnCall(GenericName, <<VariableRef(KwFn)>>)

\* C1: a parse run that reaches the end of the tokens with an opening
\* parenthesis still unclosed ends by returning a ParseError: it does not
\* panic and returns neither None nor an expression for the unclosed form.
C1_FailsClosed ==
    (RunEnded /\ pit = Len(tokens) /\ Depth(tokens) > 0) => last.out.tag = "Err"

\* C4: when the sub-rule the name after an opening parenthesis selects
\* completes without error, the next token decides: a closing parenthesis
\* gives the sub-rule's expression, the end of input a ParseError at the
\* opening parenthesis, any other token a ParseError at that token.
C4_ClosingParenthesis ==
    (/\ Called
     /\ last.start + 2 <= Len(tokens)
     /\ tokens[last.start + 1].kind = "LParen"
     /\ tokens[last.start + 2].kind = "Name")
    => LET open == last.start + 1
           sub  == parse_form(tokens, open + 1, open + 1)
       IN  sub.tag = "Some" =>
             IF sub.it >= Len(tokens)
             THEN IsParseError(EoiRParen, open)
             ELSE IF tokens[sub.it + 1].kind = "RParen"
                  THEN last.out = PSome(sub.expr, sub.it + 1)
                  ELSE IsParseError(ExpectedRParen, sub.it + 1)

\* (let x x x ...: the third name is where the closing parenthesis should be
C4_Witness ==
    /\ pc = "parse_error"
    /\ Len(tokens) = 6
    /\ tokens[2].str = KwLet
    /\ IsParseError(ExpectedRParen, 5)
    /\ tokens[5].kind = "Name"

\* C9: where the grammar requires a name, a token of another kind gives an
\* "expecting a name" ParseError at that token, and the end of input gives a
\* ParseError at the `fn` or `let` token, or at the opening parenthesis when
\* the input ends right after it.
C9_ExpectedName ==
    (Called /\ last.start < Len(tokens) /\ tokens[last.start + 1].kind = "LParen")
    => LET open == last.start + 1
           kw   == open + 1
           n    == Len(tokens)
           NameAt(k) == tokens[k].kind = "Name"
       IN  /\ kw > n => IsParseError(EofName, open)
           /\ (kw <= n /\ ~NameAt(kw)) => IsParseError(ExpectedName, kw)
           /\ (kw <= n /\ NameAt(kw) /\ tokens[kw].str = KwFn) =>
                 /\ kw + 1 > n => IsParseError(EoiFnName, kw)
                 /\ (kw + 1 <= n /\ ~NameAt(kw + 1)) => IsParseError(ExpectedName, kw + 1)
           /\ (kw <= n /\ NameAt(kw) /\ tokens[kw].str = KwLet) =>
                 /\ kw + 1 > n => IsParseError(EoiVarName, kw)
                 /\ (kw + 1 <= n /\ ~NameAt(kw + 1)) => IsParseError(ExpectedName, kw + 1)
                 /\ (kw + 1 <= n /\ NameAt(kw + 1) /\ kw + 2 > n) =>
                       IsParseError(EoiTypeName, kw)
                 /\ (kw + 2 <= n /\ NameAt(kw + 1) /\ ~NameAt(kw + 2)) =>
                       IsParseError(ExpectedType, kw + 2)

\* x (let x: the input ends where the type name of the second form should be
C9_Witness ==
    /\ pc = "parse_error"
    /\ last.start = 1
    /\ Len(tokens) = 4
    /\ IsParseError(EoiTypeName, 3)
    /\ tokens[3].str = KwLet

\* the cursor at which the k-th generated expression starts
RECURSIVE FormStart(_, _)
FormStart(fs, k) ==
    IF k = 1 THEN 0 ELSE FormStart(fs, k - 1) + Len(Unparse(fs[k - 1]))

\* C6: on the text of generated expressions, each parse_expr call returns
\* the expression the text was written from and consumes exactly its
\* tokens; the call at the end of the tokens returns None.
C6_ParsesGrammar ==
    Called =>
       /\ \E k \in 1..(Len(forms) + 1) : last.start = FormStart(forms, k)
       /\ \A k \in 1..Len(forms) :
             last.start = FormStart(forms, k) =>
                last.out = PSome(forms[k], FormStart(forms, k + 1))
       /\ last.start = Len(tokens) => last.out = PNone(Len(tokens))

\* (fn add (args a b) (do (+ a b))) parsed by one call that consumed its 17 tokens
C6_Witness ==
    /\ pc = "parse"
    /\ last.out.tag = "Some"
    /\ last.out.expr = ExampleFn
    /\ last.out.expr.kids[2].kids[1].node = "FnCall"
    /\ last.out.it = 17
    /\ Len(tokens) = 17

====
